---- MODULE Spec2Model ----
(***************************************************************************)
(* State-machine model of the arcade programs of the rgb_matrix            *)
(* repository.  One tick of a game loop is one action.  Each program is a  *)
(* process of its own, so each has its own specification over its own      *)
(* variables; the variables of the other programs stay at their initial    *)
(* values.                                                                 *)
(*                                                                         *)
(* Numbers.  Ball coordinates and velocities are Python numbers that turn  *)
(* into floats at a level clear (x 1.1).  They are kept here as integers   *)
(* in units of 1/Scale pixel; a value is exact as long as it is a multiple *)
(* of 1/Scale, which covers every integer speed and up to two compounded   *)
(* level clears.                                                           *)
(***************************************************************************)
EXTENDS Integers, Sequences, FiniteSets, TLC

\* ------------------------------------------------------------------------
\* Breakout: gameplay constants (src/breakout_game.py, lines 62-69)
\* ------------------------------------------------------------------------
W == 64
H == 32
PADDLE_W == 16
PADDLE_H == 2
BALL_SZ == 2
BALL_SPEED == 1
BRICK_ROWS == 4
BRICK_COLS == 8
BRICK_W == W \div BRICK_COLS
BRICK_H == 3
LIVES_START == 3
\* paddle.v = value * 3 (axis and hat alike)
PADDLE_SENS == 3

\* Fixed-point unit of the ball's coordinates: 1 pixel = Scale units.
Scale == 100

\* ------------------------------------------------------------------------
\* Bounds of the model
\* ------------------------------------------------------------------------
\* A run is explored while fewer than MaxScore bricks were removed in it.
MaxScore == 2
\* The same for a run that starts one brick before a level clear.
MaxEndgameScore == 4
\* A run with a partly deflected stick is explored while fewer than
\* MaxPaddleScore bricks were removed in it.
MaxPaddleScore == 1
\* Events drained in one pass of the dino and lane-runner loops.
MaxEvents == 1
\* Obstacles alive at once in the dino game.
MaxObstacles == 1
\* Obstacles and coins alive at once in the lane-runner game.
MaxBodies == 1
\* A lane-runner run is explored while its score is below MaxSurfScore.
MaxSurfScore == 2
\* At most MaxPads gamepads are connected at startup.
MaxPads == 1
\* The LEDDisplay instance that the display specification exercises is
\* DisplayW x DisplayH pixels.
DisplayW == 3
DisplayH == 2
\* The display is followed while fewer than MaxFrames frames were pushed and
\* fewer than MaxFrames were dropped.
MaxFrames == 2
\* A Flappy session started with or without a gamepad is followed for
\* MaxStartupPasses passes.
MaxStartupPasses == 10
\* At most MaxLateBodies obstacles and coins are alive after a late pass spawned.
MaxLateBodies == 2
\* Events drained in one pass of the Flappy loop.
MaxFlappyEvents == 2
\* Passes of the Flappy loop followed in one run.
MaxPasses == 22
\* The same for a run that starts with a pipe about to reach the bird.
MaxPipePasses == 12
\* A Flappy session whose pipe is about to leave is followed for
\* MaxSpawnPasses passes.
MaxSpawnPasses == 10

VARIABLES
    program,    \* which script this process runs
    pads,       \* pygame.joystick.get_count() at startup
    boot,       \* the process is "starting", "looping" or "exited"
    \* LEDDisplay (the same class in every script)
    fb,         \* LEDDisplay.fb : fb[y][x] is the colour of pixel (x, y)
    dspRaised,  \* the exception that left a method of the display, "none" if none
    frames,     \* history: [shown, dropped], the frames pushed and dropped so far
    dspLast,    \* history: the latest call on the display
    \* breakout_game.py
    paddle,     \* Breakout.paddle : [x, y, w, h]
    ball,       \* Breakout.ball   : [x, y, dx, dy, stuck, sz] (x, y, dx, dy in 1/Scale px)
    bricks,     \* Breakout.bricks : sequence of <<bx, by>>, in list order
    score,      \* Breakout.score
    lives,      \* Breakout.lives
    running,    \* the local `running` of Breakout.run
    clears,     \* history: level clears since the last full reset
    last,       \* history: what the latest pass did (its events)
    \* google_dinosaur_game.py
    dino,       \* main's dino : [x, y, vy, on_ground, w, h] (y, vy in 1/Scale px)
    obstacles,  \* main's obstacles : sequence of [x, y, w, h]
    dinoLoop,   \* main's loop: "running", "stopped" or "raised"
    \* subway_surfers.py
    runner,     \* main's runner : [lane, x, y, vy, on_ground, w, h]
    surfObstacles,  \* main's obstacles : sequence of [x, y, w, h]
    surfCoins,  \* main's coins : sequence of [x, sz]
    surfScore,  \* main's score
    surfRunning,    \* main's running
    surfLast,   \* history: what the latest pass of the lane runner did
    \* flappy_bird_game.py
    bird,       \* FlappyGame.bird : [x, y, vy, cool, w, h] (y, vy in 1/Scale px)
    pipes,      \* FlappyGame.pipes : sequence of [x, gap_top], in list order
    frame,      \* FlappyGame.frame
    next_spawn, \* FlappyGame.next_spawn
    boom_frames,    \* FlappyGame.boom_frames
    boom_pos,   \* FlappyGame.boom_pos : <<cx, cy>>
    flappyRunning,  \* the loop of FlappyGame.run has not been left
    flLast,     \* history: what the latest pass of FlappyGame.run did
    flapSince,  \* history: a flap happened after the latest release event
    flPasses    \* history: passes of FlappyGame.run followed so far

breakoutVars == <<paddle, ball, bricks, score, lives, running, clears, last>>

dinoVars == <<dino, obstacles, dinoLoop>>

surfVars == <<runner, surfObstacles, surfCoins, surfScore, surfRunning, surfLast>>

flappyWorld == <<bird, pipes, frame, next_spawn, boom_frames, boom_pos>>

flappyVars == <<flappyWorld, flappyRunning, flLast, flapSince, flPasses>>

procVars == <<program, pads, boot>>

displayVars == <<fb, dspRaised, frames, dspLast>>

vars == <<procVars, displayVars, breakoutVars, dinoVars, surfVars, flappyVars>>

\* ------------------------------------------------------------------------
\* Arithmetic helpers
\* ------------------------------------------------------------------------
Min2(a, b) == IF a <= b THEN a ELSE b

Max2(a, b) == IF a >= b THEN a ELSE b

\* Python int() of the quotient n / d (d > 0): truncation toward zero.
TruncDiv(n, d) == IF n >= 0 THEN n \div d ELSE -((-n) \div d)

\* A whole number of pixels in fixed-point units.
PX(n) == n * Scale

Sign(n) == IF n > 0 THEN 1 ELSE IF n < 0 THEN -1 ELSE 0

\* ------------------------------------------------------------------------
\* Paddle
\* ------------------------------------------------------------------------
PaddleInit ==
    [w |-> PADDLE_W, h |-> PADDLE_H, x |-> (W - PADDLE_W) \div 2, y |-> H - 3]

\* Variant of Paddle.update that drifts one pixel to the right.
PaddleUpdateDrift(p, v) == [p EXCEPT !.x = Max2(0, Min2(W - p.w, p.x + v + 1))]

\* Variant of Paddle.update without the clamp at the left edge.
PaddleUpdateNoFloor(p, v) == [p EXCEPT !.x = Min2(W - p.w, p.x + v)]

\* Paddle.update (lines 86-87); v is int(self.v), a whole number.
PaddleUpdate(p, v) == [p EXCEPT !.x = Max2(0, Min2(W - p.w, p.x + v))]

\* ------------------------------------------------------------------------
\* Ball
\* ------------------------------------------------------------------------
\* Variant of BallReset that leaves the ball released.
BallResetNotStuck(b, p) ==
    [b EXCEPT !.x = PX(p.x + p.w \div 2),
              !.y = PX(p.y - b.sz - 1),
              !.dx = PX(BALL_SPEED),
              !.dy = -PX(BALL_SPEED)]

\* Variant of BallReset that serves the ball from the paddle's left end.
BallResetOffCentre(b, p) ==
    [b EXCEPT !.x = PX(p.x),
              !.y = PX(p.y - b.sz - 1),
              !.dx = PX(BALL_SPEED),
              !.dy = -PX(BALL_SPEED),
              !.stuck = TRUE]

BallReset(b, p) ==
    [b EXCEPT !.x = PX(p.x + p.w \div 2),
              !.y = PX(p.y - b.sz - 1),
              !.dx = PX(BALL_SPEED),
              !.dy = -PX(BALL_SPEED),
              !.stuck = TRUE]

BallInit(p) ==
    BallReset([sz |-> BALL_SZ, x |-> 0, y |-> 0, dx |-> 0, dy |-> 0, stuck |-> TRUE], p)

BallRelease(b) == [b EXCEPT !.stuck = FALSE]

\* Line 111: the side-bound test on the moved x.
TouchesSide(x, sz) == x <= 0 \/ x >= PX(W - sz)

\* Line 113: the top-bound test on the moved y.
TouchesTop(y) == y <= 0

\* Variant of PaddleHit without the direction test.
PaddleHitAnyDirection(x, y, dy, sz, p) ==
    /\ PX(p.y) <= y + PX(sz)
    /\ y + PX(sz) <= PX(p.y + p.h)
    /\ PX(p.x) <= x
    /\ x <= PX(p.x + p.w)

\* Lines 115-118: the paddle test, on the moved position and the dy left by
\* the top bounce.
PaddleHit(x, y, dy, sz, p) ==
    /\ PX(p.y) <= y + PX(sz)
    /\ y + PX(sz) <= PX(p.y + p.h)
    /\ PX(p.x) <= x
    /\ x <= PX(p.x + p.w)
    /\ dy > 0

\* Variant of DeflectDx without the `or` fallback.
DeflectDxNoFallback(x, dx, p) ==
    PX(TruncDiv(4 * (x - PX(p.x)) - 2 * PX(p.w), PX(p.w)))

\* Variant of DeflectDx that rounds down (//) where the code truncates (int).
DeflectDxFloor(x, dx, p) ==
    LET t == (4 * (x - PX(p.x)) - 2 * PX(p.w)) \div PX(p.w)
    IN  IF t # 0 THEN PX(t) ELSE IF dx >= 0 THEN PX(1) ELSE -PX(1)

\* Lines 120-121: int(offset * 4) with offset = (x - paddle.x) / paddle.w - 0.5,
\* i.e. int((4 * (x - paddle.x) - 2 * paddle.w) / paddle.w), or the sign fallback
\* on the dx left by the side bounce.
DeflectDx(x, dx, p) ==
    LET t == TruncDiv(4 * (x - PX(p.x)) - 2 * PX(p.w), PX(p.w))
    IN  IF t # 0 THEN PX(t) ELSE IF dx >= 0 THEN PX(1) ELSE -PX(1)

\* Variant of InBrick whose lower edge is one row too low.
InBrickTall(b, x, y) ==
    /\ PX(b[1]) <= x
    /\ x <= PX(b[1] + BRICK_W - 1)
    /\ PX(b[2]) <= y
    /\ y <= PX(b[2] + BRICK_H)

\* Line 123: the reference point (x, y) lies in brick b.
InBrick(b, x, y) ==
    /\ PX(b[1]) <= x
    /\ x <= PX(b[1] + BRICK_W - 1)
    /\ PX(b[2]) <= y
    /\ y <= PX(b[2] + BRICK_H - 1)

\* Lines 122-127: index of the first brick in list order that holds the point,
\* 0 when there is none.
FirstHit(bs, x, y) ==
    LET S == {i \in 1..Len(bs) : InBrick(bs[i], x, y)}
    IN  IF S = {} THEN 0 ELSE CHOOSE i \in S : \A j \in S : i <= j

\* Variant of RemoveAt that takes the brick after the hit one as well.
RemoveAtAndNext(bs, i) == SubSeq(bs, 1, i - 1) \o SubSeq(bs, i + 2, Len(bs))

\* Line 124: bricks.remove((bx, by)) for the brick at index i.
RemoveAt(bs, i) == SubSeq(bs, 1, i - 1) \o SubSeq(bs, i + 1, Len(bs))

\* Ball.update (lines 103-128): the new ball, the new brick list, the score
\* returned, and the events of the call.
BallUpdate(b, p, bs) ==
    IF b.stuck
    THEN [ball    |-> [b EXCEPT !.x = PX(p.x + p.w \div 2), !.y = PX(p.y - b.sz - 1)],
          bricks  |-> bs,
          score   |-> 0,
          moved   |-> FALSE,
          side    |-> FALSE,
          deflect |-> FALSE,
          removed |-> << >>]
    ELSE LET x1   == b.x + b.dx
             y1   == b.y + b.dy
             side == TouchesSide(x1, b.sz)
             dx1  == IF side THEN -b.dx ELSE b.dx
             dy1  == IF TouchesTop(y1) THEN -b.dy ELSE b.dy
             hit  == PaddleHit(x1, y1, dy1, b.sz, p)
             dy2  == IF hit THEN -PX(BALL_SPEED) ELSE dy1
             dx2  == IF hit THEN DeflectDx(x1, dx1, p) ELSE dx1
             i    == FirstHit(bs, x1, y1)
             dy3  == IF i # 0 THEN -dy2 ELSE dy2
         IN  [ball    |-> [b EXCEPT !.x = x1, !.y = y1, !.dx = dx2, !.dy = dy3],
              bricks  |-> IF i # 0 THEN RemoveAt(bs, i) ELSE bs,
              score   |-> IF i # 0 THEN 1 ELSE 0,
              moved   |-> TRUE,
              side    |-> side,
              deflect |-> hit,
              removed |-> IF i # 0 THEN <<bs[i]>> ELSE << >>]

\* ------------------------------------------------------------------------
\* Breakout
\* ------------------------------------------------------------------------
\* Lines 154 and 188: the starting layout, row by row.
FullLayout ==
    [i \in 1..(BRICK_ROWS * BRICK_COLS) |->
        <<((i - 1) % BRICK_COLS) * BRICK_W, 2 + ((i - 1) \div BRICK_COLS) * BRICK_H>>]

\* The level clear without its speed-up.
SpeedKept(v) == v

\* Line 189: v *= 1.1.
SpeedUp(v) == (v * 11) \div 10

NoEvents ==
    [moved |-> FALSE, side |-> FALSE, deflect |-> FALSE, removed |-> << >>,
     lost |-> FALSE, reset |-> FALSE, clear |-> FALSE]

\* Variant of BreakoutReset that leaves the lives at 0.
BreakoutResetNoLives ==
    [score  |-> 0,
     lives  |-> 0,
     paddle |-> PaddleInit,
     ball   |-> BallInit(PaddleInit),
     bricks |-> FullLayout]

\* Variant of BreakoutReset that keeps the score.
BreakoutResetKeepsScore ==
    [score  |-> score,
     lives  |-> LIVES_START,
     paddle |-> PaddleInit,
     ball   |-> BallInit(PaddleInit),
     bricks |-> FullLayout]

\* Variant of BreakoutReset that keeps the bricks that are left.
BreakoutResetKeepsBricks ==
    [score  |-> 0,
     lives  |-> LIVES_START,
     paddle |-> PaddleInit,
     ball   |-> BallInit(PaddleInit),
     bricks |-> bricks]

\* Breakout.reset (lines 150-154): the session after construction or full reset.
BreakoutReset ==
    [score  |-> 0,
     lives  |-> LIVES_START,
     paddle |-> PaddleInit,
     ball   |-> BallInit(PaddleInit),
     bricks |-> FullLayout]

\* A session with the given fields, no tick done yet.
BreakoutAt(p, b, bs, sc, lv) ==
    /\ paddle = p
    /\ ball = b
    /\ bricks = bs
    /\ score = sc
    /\ lives = lv
    /\ running = TRUE
    /\ clears = 0
    /\ last = NoEvents

\* Breakout.__init__ (line 148): the constructor ends with reset().
BreakoutInit ==
    BreakoutAt(BreakoutReset.paddle, BreakoutReset.ball, BreakoutReset.bricks,
               BreakoutReset.score, BreakoutReset.lives)

\* Line 181: the ball left through the bottom edge.
BallLost(b) == b.y >= PX(H)

\* One pass of the loop of Breakout.run (lines 163-207).  The events drained
\* in the pass come down to: press (a button-0 press), value (the axis or hat
\* reading that sets paddle.v = value * 3; 0 when there is none), quit (a press
\* of button 7, 8 or 9).  Drawing reads the state and changes none of it.
\* move is int(paddle.v), the whole pixels that Paddle.update adds.
TickMove(press, move, quit) ==
    \E p1 \in {PaddleUpdate(paddle, move)} :
    \E u \in {BallUpdate(IF press /\ ball.stuck THEN BallRelease(ball) ELSE ball,
                          p1, bricks)} :
    \E lost \in {BallLost(u.ball)} :
    \E reset \in {lost /\ lives - 1 = 0} :
    \E r \in {BreakoutReset} :
    \E b2 \in {IF reset THEN r.ball
                ELSE IF lost THEN BallReset(u.ball, p1) ELSE u.ball} :
    \E bs2 \in {IF reset THEN r.bricks ELSE u.bricks} :
    \E clear \in {bs2 = << >>} :
        /\ paddle' = IF reset THEN r.paddle ELSE p1
        /\ ball' = IF clear
                   THEN [b2 EXCEPT !.dx = SpeedUp(b2.dx), !.dy = SpeedUp(b2.dy)]
                   ELSE b2
        /\ bricks' = IF clear THEN FullLayout ELSE bs2
        /\ score' = IF reset THEN r.score ELSE score + u.score
        /\ lives' = IF reset THEN r.lives ELSE IF lost THEN lives - 1 ELSE lives
        /\ running' = ~quit
        /\ clears' = IF reset THEN 0 ELSE IF clear THEN clears + 1 ELSE clears
        /\ last' = [moved |-> u.moved, side |-> u.side, deflect |-> u.deflect,
                    removed |-> u.removed, lost |-> lost, reset |-> reset,
                    clear |-> clear]

\* The pass with a whole reading: paddle.v = value * 3 is whole.
Tick(press, value, quit) == TickMove(press, value * PADDLE_SENS, quit)

\* The inputs of a pass: the hat and the fully deflected stick read -1, 0 or 1.
AxisValues == {-1, 0, 1}

\* Readings of a partly deflected stick, in 1/Scale: -1.0, -0.67, -0.5, 0,
\* 0.5, 0.67 and 1.0.
AxisReadings == {-100, -67, -50, 0, 50, 67, 100}

\* The pass with a stick reading: paddle.v = reading * 3, and Paddle.update
\* adds int(paddle.v).
TickAxis(press, reading, quit) ==
    TickMove(press, TruncDiv(reading * PADDLE_SENS, Scale), quit)

\* The event mixes of a pass: any press and axis reading, and a quit press
\* alone or together with a button-0 press.
Inputs ==
    {<<press, value, FALSE>> : press \in BOOLEAN, value \in AxisValues}
        \cup {<<press, 0, TRUE>> : press \in BOOLEAN}

\* The loop runs while `running`; the model follows a run while its score is
\* in lo .. lo + n - 1.
Playing(lo, n) == running /\ score >= lo /\ score < lo + n

TickFrom(lo, n) ==
    /\ program = "breakout"
    /\ boot = "looping"
    /\ Playing(lo, n)
    /\ \E in \in Inputs : Tick(in[1], in[2], in[3])
    /\ UNCHANGED <<procVars, displayVars, dinoVars, surfVars, flappyVars>>

\* A pass of a run in score window lo .. lo + n - 1 with a stick reading.
AnalogTickFrom(lo, n) ==
    /\ program = "breakout"
    /\ boot = "looping"
    /\ Playing(lo, n)
    /\ \E press \in BOOLEAN, reading \in AxisReadings, quit \in BOOLEAN :
           TickAxis(press, reading, quit)
    /\ UNCHANGED <<procVars, displayVars, dinoVars, surfVars, flappyVars>>

\* ------------------------------------------------------------------------
\* Dino and lane runner: configuration (src/google_dinosaur_game.py, lines
\* 54-61; src/subway_surfers.py, lines 55-63).  W, H, GROUND_Y, GRAVITY and
\* JUMP_STRENGTH are the same in both files.
\* ------------------------------------------------------------------------
DINO_W == 6
DINO_H == 6
DINO_X == 10
GROUND_Y == H - 4
\* GRAVITY = -0.8, in tenths
GRAVITY_TENTHS == -8
JUMP_STRENGTH == 8
OBSTACLE_WIDTH == 4
OBSTACLE_HEIGHT == 6
LANES == 3
RUNNER_W == 4
RUNNER_H == 6
OBSTACLE_W == 4
OBSTACLE_H == 4
COIN_SZ == 2

\* Both loops measure dt; the model takes the nominal pass, dt * FPS = 1, so
\* GRAVITY * dt * FPS is GRAVITY and v * dt * FPS is v.
GravityStep == (GRAVITY_TENTHS * Scale) \div 10

\* int(120 * dt * FPS / 30) and int(100 * dt * FPS / 30) at the nominal pass.
DinoObstacleStep == TruncDiv(120, 30)

SurfObstacleStep == TruncDiv(100, 30)

SurfCoinStep == TruncDiv(120, 30)

\* The same two steps at a late pass, one whose dt is 5/4 of 1/FPS.
SurfObstacleLateStep == TruncDiv(100 * 5, 30 * 4)

SurfCoinLateStep == TruncDiv(120 * 5, 30 * 4)

\* The finite sequences over S of length at most n.
SeqsUpTo(S, n) == UNION {[1..k -> S] : k \in 0..n}

\* ------------------------------------------------------------------------
\* Dino (src/google_dinosaur_game.py)
\* ------------------------------------------------------------------------
\* Dino.reset (lines 74-77).
DinoReset(d) ==
    [d EXCEPT !.y = PX(GROUND_Y - d.h), !.vy = 0, !.on_ground = TRUE]

\* Dino.__init__ (lines 69-72).
DinoNew ==
    DinoReset([w |-> DINO_W, h |-> DINO_H, x |-> DINO_X, y |-> 0, vy |-> 0,
               on_ground |-> FALSE])

\* Variant of Dino.jump without the on_ground test.
DinoJumpAnywhere(d) == [d EXCEPT !.vy = PX(JUMP_STRENGTH), !.on_ground = FALSE]

\* Dino.jump (lines 79-82).
DinoJump(d) ==
    IF d.on_ground
    THEN [d EXCEPT !.vy = PX(JUMP_STRENGTH), !.on_ground = FALSE]
    ELSE d

\* Variant of Dino.update that lands without zeroing vy.
DinoUpdateKeepsVy(d) ==
    IF d.on_ground
    THEN d
    ELSE LET vy1 == d.vy + GravityStep
             y1  == d.y - vy1
         IN  IF y1 >= PX(GROUND_Y - d.h)
             THEN [d EXCEPT !.y = PX(GROUND_Y - d.h), !.vy = vy1, !.on_ground = TRUE]
             ELSE [d EXCEPT !.y = y1, !.vy = vy1]

\* Dino.update (lines 84-91) at the nominal pass.
DinoUpdate(d) ==
    IF d.on_ground
    THEN d
    ELSE LET vy1 == d.vy + GravityStep
             y1  == d.y - vy1
         IN  IF y1 >= PX(GROUND_Y - d.h)
             THEN [d EXCEPT !.y = PX(GROUND_Y - d.h), !.vy = 0, !.on_ground = TRUE]
             ELSE [d EXCEPT !.y = y1, !.vy = vy1]

\* Obstacle.__init__ (lines 101-105).
ObstacleNew ==
    [w |-> OBSTACLE_WIDTH, h |-> OBSTACLE_HEIGHT, x |-> W, y |-> GROUND_Y - OBSTACLE_HEIGHT]

\* Obstacle.update (lines 107-108).
ObstacleUpdate(o) == [o EXCEPT !.x = o.x - DinoObstacleStep]

\* Dino.pixels (lines 93-98); int(self.y) truncates toward zero.
DinoPixels(d) ==
    {<<px, py>> : px \in d.x..(d.x + d.w - 1),
                  py \in TruncDiv(d.y, Scale)..(TruncDiv(d.y, Scale) + d.h - 1)}

\* Obstacle.pixels (lines 110-113).
ObstaclePixels(o) ==
    {<<px, py>> : px \in o.x..(o.x + o.w - 1), py \in o.y..(o.y + o.h - 1)}

\* The pixels that LEDDisplay.set accepts (lines 43-45): 0 <= x < w, 0 <= y < h.
OnDisplay(S) == {p \in S : p[1] \in 0..(W - 1) /\ p[2] \in 0..(H - 1)}

\* The ground line that both runners draw first: dsp.set(x, GROUND_Y, ...).
GroundPixels == {<<x, GROUND_Y>> : x \in 0..(W - 1)}

\* The draw step of main (lines 166-176) as the sequence of its groups of
\* dsp.set calls: the ground line, the dino, then each obstacle in list order.
DinoDraw(d, obs) ==
    <<[kind |-> "passive", px |-> OnDisplay(GroundPixels)],
      [kind |-> "actor", px |-> OnDisplay(DinoPixels(d))]>>
    \o [k \in 1..Len(obs) |-> [kind |-> "passive", px |-> OnDisplay(ObstaclePixels(obs[k]))]]

\* Lines 158-161: the overlap test of the collision loop.
DinoCollides(d, o) ==
    /\ PX(d.x) < PX(o.x + o.w)
    /\ PX(d.x + d.w) > PX(o.x)
    /\ d.y < PX(o.y + o.h)
    /\ d.y + PX(d.h) > PX(o.y)

\* Lines 141-146: the events of one pass, in order.  "press0" is a press of
\* button 0; "pressOther" is a press of any other button, for which
\* `e.button in (3)` tests membership in the integer 3 and raises TypeError.
DinoEventKinds == {"press0", "pressOther"}

RECURSIVE DinoInput(_, _)
DinoInput(d, evs) ==
    IF evs = << >> THEN [dino |-> d, raised |-> FALSE]
    ELSE IF Head(evs) = "press0" THEN DinoInput(DinoJump(d), Tail(evs))
    ELSE [dino |-> d, raised |-> TRUE]

\* One pass of the loop of main (lines 135-179); spawn is the outcome of
\* random.random() < SPAWN_PROB.
DinoPass(evs, spawn) ==
    \E in \in {DinoInput(dino, evs)} :
        IF in.raised
        THEN /\ dino' = in.dino
             /\ dinoLoop' = "raised"
             /\ UNCHANGED obstacles
        ELSE \E d1 \in {DinoUpdate(in.dino)} :
             \E obs1 \in {IF spawn THEN Append(obstacles, ObstacleNew) ELSE obstacles} :
             \E obs2 \in {[k \in 1..Len(obs1) |-> ObstacleUpdate(obs1[k])]} :
             \E obs3 \in {SelectSeq(obs2, LAMBDA o : o.x + o.w > 0)} :
             \E hit \in {\E k \in 1..Len(obs3) : DinoCollides(d1, obs3[k])} :
                 /\ dino' = IF hit THEN DinoReset(d1) ELSE d1
                 /\ obstacles' = IF hit THEN << >> ELSE obs3
                 /\ UNCHANGED dinoLoop

DinoTick ==
    /\ program = "dino"
    /\ boot = "looping"
    /\ dinoLoop = "running"
    /\ \E evs \in SeqsUpTo(DinoEventKinds, MaxEvents), spawn \in BOOLEAN :
           /\ spawn => Len(obstacles) < MaxObstacles
           /\ DinoPass(evs, spawn)
    /\ UNCHANGED <<procVars, displayVars, breakoutVars, surfVars, flappyVars>>

DinoInit ==
    /\ dino = DinoNew
    /\ obstacles = << >>
    /\ dinoLoop = "running"

\* ------------------------------------------------------------------------
\* Lane runner (src/subway_surfers.py)
\* ------------------------------------------------------------------------
\* Line 58: LANE_X[i] = int(W * (i + 1) / (LANES + 1)), for lane i of 0 .. LANES - 1.
LANE_X(i) == TruncDiv(W * (i + 1), LANES + 1)

\* Variant of Runner.reset that puts the runner back in the centre lane.
RunnerResetToCentre(r) ==
    [r EXCEPT !.y = PX(GROUND_Y - r.h), !.vy = 0, !.on_ground = TRUE,
              !.lane = 1, !.x = LANE_X(1)]

\* Runner.reset (lines 79-83).
RunnerReset(r) ==
    [r EXCEPT !.y = PX(GROUND_Y - r.h), !.vy = 0, !.on_ground = TRUE,
              !.x = LANE_X(r.lane)]

\* Runner.__init__ (lines 74-78).
RunnerNew ==
    RunnerReset([lane |-> 1, x |-> LANE_X(1), w |-> RUNNER_W, h |-> RUNNER_H,
                 y |-> 0, vy |-> 0, on_ground |-> FALSE])

\* Runner.jump (lines 84-87).
RunnerJump(r) ==
    IF r.on_ground
    THEN [r EXCEPT !.vy = PX(JUMP_STRENGTH), !.on_ground = FALSE]
    ELSE r

\* Runner.move_left (lines 88-90).
RunnerMoveLeft(r) ==
    LET l == Max2(0, r.lane - 1) IN [r EXCEPT !.lane = l, !.x = LANE_X(l)]

\* Runner.move_right (lines 91-93).
RunnerMoveRight(r) ==
    LET l == Min2(LANES - 1, r.lane + 1) IN [r EXCEPT !.lane = l, !.x = LANE_X(l)]

\* Runner.update (lines 94-101) at the nominal pass.
RunnerUpdate(r) ==
    IF r.on_ground
    THEN r
    ELSE LET vy1 == r.vy + GravityStep
             y1  == r.y - vy1
         IN  IF y1 >= PX(GROUND_Y - r.h)
             THEN [r EXCEPT !.y = PX(GROUND_Y - r.h), !.vy = 0, !.on_ground = TRUE]
             ELSE [r EXCEPT !.y = y1, !.vy = vy1]

\* The pixels of a w x h block whose top-left pixel is (x0, y0).
Block(x0, y0, w, h) ==
    {<<px, py>> : px \in x0..(x0 + w - 1), py \in y0..(y0 + h - 1)}

\* Runner.pixels (lines 102-107); int(self.y) truncates toward zero.
RunnerPixels(r) == Block(r.x - r.w \div 2, TruncDiv(r.y, Scale), r.w, r.h)

\* Obstacle.__init__ (lines 110-114); the lane drawn at random is never read.
SurfObstacleNew ==
    [x |-> W, w |-> OBSTACLE_W, h |-> OBSTACLE_H, y |-> GROUND_Y - OBSTACLE_H]

\* Obstacle.update (lines 115-116).
SurfObstacleUpdate(o) == [o EXCEPT !.x = o.x - SurfObstacleStep]

\* Obstacle.update at a late pass.
SurfObstacleUpdateLate(o) == [o EXCEPT !.x = o.x - SurfObstacleLateStep]

\* Obstacle.pixels (lines 117-121).
SurfObstaclePixels(o) == Block(o.x - o.w \div 2, o.y, o.w, o.h)

\* Coin.__init__ (lines 124-128); the lane and y it sets are never read.
CoinNew == [x |-> W, sz |-> COIN_SZ]

\* Coin.update (lines 129-130).
CoinUpdate(c) == [c EXCEPT !.x = c.x - SurfCoinStep]

\* Coin.update at a late pass.
CoinUpdateLate(c) == [c EXCEPT !.x = c.x - SurfCoinLateStep]

\* Coin.pixels (lines 131-136).
CoinPixels(c) == Block(c.x - c.sz \div 2, GROUND_Y - c.sz - 1, c.sz, c.sz)

\* Lines 159-168: the events of one pass, in order.  "jump" is a press of
\* button 0, "quit" a press of button 7, 8 or 9, "left" and "right" an axis-0
\* reading beyond -0.5 / 0.5 or a hat reading of -1 / 1.
SurfEventKinds == {"jump", "quit", "left", "right"}

RECURSIVE SurfInput(_, _, _)
SurfInput(r, run, evs) ==
    IF evs = << >> THEN [runner |-> r, running |-> run]
    ELSE IF Head(evs) = "jump" THEN SurfInput(RunnerJump(r), run, Tail(evs))
    ELSE IF Head(evs) = "quit" THEN SurfInput(r, FALSE, Tail(evs))
    ELSE IF Head(evs) = "left" THEN SurfInput(RunnerMoveLeft(r), run, Tail(evs))
    ELSE SurfInput(RunnerMoveRight(r), run, Tail(evs))

\* Lines 180-182: index of the first obstacle whose pixels meet the runner's,
\* 0 if none.
FirstObstacleTouching(obs, r) ==
    LET S == {k \in 1..Len(obs) : SurfObstaclePixels(obs[k]) \cap RunnerPixels(r) # {}}
    IN  IF S = {} THEN 0 ELSE CHOOSE k \in S : \A j \in S : k <= j

\* Lines 183-185: index of the first coin whose pixels meet the runner's, 0 if
\* none.
FirstCoinTouching(cs, r) ==
    LET S == {k \in 1..Len(cs) : CoinPixels(cs[k]) \cap RunnerPixels(r) # {}}
    IN  IF S = {} THEN 0 ELSE CHOOSE k \in S : \A j \in S : k <= j

\* The draw step of main (lines 186-199) as the sequence of its groups of
\* dsp.set calls: the ground line, the runner, each obstacle, then each coin.
SurfDraw(r, obs, cs) ==
    <<[kind |-> "passive", px |-> OnDisplay(GroundPixels)],
      [kind |-> "actor", px |-> OnDisplay(RunnerPixels(r))]>>
    \o [k \in 1..Len(obs) |->
           [kind |-> "passive", px |-> OnDisplay(SurfObstaclePixels(obs[k]))]]
    \o [k \in 1..Len(cs) |-> [kind |-> "passive", px |-> OnDisplay(CoinPixels(cs[k]))]]

\* The coins whose pixels meet the runner's.
CoinsTouching(cs, r) ==
    {k \in 1..Len(cs) : CoinPixels(cs[k]) \cap RunnerPixels(r) # {}}

\* Variant of the coin loop without its break: every touching coin scores.
CollectEveryCoin(cs, r) ==
    [coins  |-> SelectSeq(cs, LAMBDA c : CoinPixels(c) \cap RunnerPixels(r) = {}),
     gained |-> Cardinality(CoinsTouching(cs, r))]

\* Lines 183-185: the first touching coin is removed and scores one point,
\* and the loop breaks.
CollectCoin(cs, r) ==
    LET got == FirstCoinTouching(cs, r)
    IN  IF got # 0
        THEN [coins  |-> SubSeq(cs, 1, got - 1) \o SubSeq(cs, got + 1, Len(cs)),
              gained |-> 1]
        ELSE [coins |-> cs, gained |-> 0]

\* One pass of the loop of main (lines 156-200); spawnObs and spawnCoin are
\* the outcomes of the two random.random() tests.  late tells a pass whose dt
\* is 5/4 of 1/FPS from a nominal one; a late pass is modelled for a runner
\* on the ground, whose update does nothing whatever dt is.
SurfPassAt(evs, spawnObs, spawnCoin, late) ==
    \E in \in {SurfInput(runner, surfRunning, evs)} :
    \E r1 \in {RunnerUpdate(in.runner)} :
    \E obs1 \in {IF spawnObs THEN Append(surfObstacles, SurfObstacleNew)
                 ELSE surfObstacles} :
    \E cs1 \in {IF spawnCoin THEN Append(surfCoins, CoinNew) ELSE surfCoins} :
    \E obs2 \in {SelectSeq([k \in 1..Len(obs1) |->
                               IF late THEN SurfObstacleUpdateLate(obs1[k])
                               ELSE SurfObstacleUpdate(obs1[k])],
                           LAMBDA o : o.x > -o.w)} :
    \E cs2 \in {SelectSeq([k \in 1..Len(cs1) |->
                              IF late THEN CoinUpdateLate(cs1[k])
                              ELSE CoinUpdate(cs1[k])],
                          LAMBDA c : c.x > -c.sz)} :
    \E hit \in {FirstObstacleTouching(obs2, r1) # 0} :
    \E r2 \in {IF hit THEN RunnerReset(r1) ELSE r1} :
    \E cs3 \in {IF hit THEN << >> ELSE cs2} :
    \E col \in {CollectCoin(cs3, r2)} :
        /\ late => in.runner.on_ground
        /\ runner' = r2
        /\ surfObstacles' = IF hit THEN << >> ELSE obs2
        /\ surfCoins' = col.coins
        /\ surfScore' = surfScore + col.gained
        /\ surfRunning' = in.running
        /\ surfLast' = [hit |-> hit, touching |-> Cardinality(CoinsTouching(cs3, r2)),
                        removed |-> Len(cs3) - Len(col.coins)]

SurfPass(evs, spawnObs, spawnCoin) == SurfPassAt(evs, spawnObs, spawnCoin, FALSE)

SurfTick ==
    /\ program = "surf"
    /\ boot = "looping"
    /\ surfRunning
    /\ surfScore < MaxSurfScore
    /\ \E evs \in SeqsUpTo(SurfEventKinds, MaxEvents),
          spawnObs \in BOOLEAN, spawnCoin \in BOOLEAN :
           /\ (spawnObs \/ spawnCoin) =>
                  Len(surfObstacles) + Len(surfCoins)
                      + (IF spawnObs THEN 1 ELSE 0) + (IF spawnCoin THEN 1 ELSE 0)
                      <= MaxBodies
           /\ SurfPass(evs, spawnObs, spawnCoin)
    /\ UNCHANGED <<procVars, displayVars, breakoutVars, dinoVars, flappyVars>>

\* A late pass; it may spawn up to MaxLateBodies bodies in all.
SurfLateTick ==
    /\ program = "surf"
    /\ boot = "looping"
    /\ surfRunning
    /\ surfScore < MaxSurfScore
    /\ \E evs \in SeqsUpTo(SurfEventKinds, MaxEvents),
          spawnObs \in BOOLEAN, spawnCoin \in BOOLEAN :
           /\ (spawnObs \/ spawnCoin) =>
                  Len(surfObstacles) + Len(surfCoins)
                      + (IF spawnObs THEN 1 ELSE 0) + (IF spawnCoin THEN 1 ELSE 0)
                      <= MaxLateBodies
           /\ SurfPassAt(evs, spawnObs, spawnCoin, TRUE)
    /\ UNCHANGED <<procVars, displayVars, breakoutVars, dinoVars, flappyVars>>

SurfInit ==
    /\ runner = RunnerNew
    /\ surfObstacles = << >>
    /\ surfCoins = << >>
    /\ surfScore = 0
    /\ surfRunning = TRUE
    /\ surfLast = [hit |-> FALSE, touching |-> 0, removed |-> 0]

\* ------------------------------------------------------------------------
\* Flappy (src/flappy_bird_game.py)
\* ------------------------------------------------------------------------
\* The script's W and H are the 64 and 32 above.  The bird's y and vy are
\* Python floats; the model holds their decimal values (two places) in
\* 1/Scale px.  The float y is off its decimal value by a rounding error of a
\* few 1e-15, which decides a comparison only when the decimal value ties
\* with the whole number it is compared to; err is the sign of that error
\* (-1, 0 or 1) and every such comparison takes it into account.
\* GRAVITY = 0.16
FLAPPY_GRAVITY == 16
\* FLAP_VY = -1.3
FLAP_VY == -130
\* VY_CLAMP = -2.0
VY_CLAMP == -200
PIPE_SPEED == 1
PIPE_WIDTH == 3
GAP_HEIGHT == 11
SPAWN_EVERY == 70
\* len(Bird.PATTERN[0]) and len(Bird.PATTERN)
BIRD_W == 8
BIRD_H == 4
\* trigger_boom: self.boom_frames = 6
BOOM_FRAMES == 6
\* Pipe.__init__: random.randint(4, H - GAP_HEIGHT - 4)
GAP_MARGIN == 4

GapTops == GAP_MARGIN .. (H - GAP_HEIGHT - GAP_MARGIN)

\* Bird.__init__ (lines 84-90).
BirdNew ==
    [w |-> BIRD_W, h |-> BIRD_H, x |-> W \div 4, y |-> PX(H \div 2), vy |-> 0,
     cool |-> FALSE]

\* Bird.flap (lines 93-96).
BirdFlap(b) == IF ~b.cool THEN [b EXCEPT !.vy = FLAP_VY, !.cool = TRUE] ELSE b

\* Bird.release_flap (lines 97-98).
BirdReleaseFlap(b) == [b EXCEPT !.cool = FALSE]

\* Bird.update (lines 99-102).
BirdUpdate(b) ==
    LET v == Max2(b.vy + FLAPPY_GRAVITY, VY_CLAMP)
    IN  [b EXCEPT !.vy = v, !.y = b.y + v]

\* Pipe.__init__ (lines 116-118); gap is the draw of random.randint.
PipeNew(x, gap) == [x |-> x, gap_top |-> gap]

\* Pipe.update (lines 119-120).
PipeUpdate(p) == [p EXCEPT !.x = p.x - PIPE_SPEED]

\* Variant of Pipe.off_screen that never reports a pipe gone.
PipeNeverOffScreen(p) == FALSE

\* Pipe.off_screen (lines 121-122).
PipeOffScreen(p) == p.x + PIPE_WIDTH < 0

\* The in_x test of Pipe.collides (line 127), on Bird.bbox (line 106).
PipeInX(p, b) == b.x + b.w - 1 >= p.x /\ b.x <= p.x + PIPE_WIDTH - 1

\* float a >= whole b and float a <= whole b, for a float of decimal value a
\* and rounding error of sign err.
FloatGeq(a, err, b) == a > b \/ (a = b /\ err >= 0)

FloatLeq(a, err, b) == a < b \/ (a = b /\ err <= 0)

\* The signs the rounding error of a float of decimal value a can take where
\* it matters: any when a is a whole number of pixels.
RoundingOf(a) == IF a % Scale = 0 THEN {-1, 0, 1} ELSE {0}

\* The in_gap test of Pipe.collides (line 128), on Bird.bbox (line 106).
PipeInGap(p, b, err) ==
    /\ FloatGeq(b.y + PX(b.h - 1), err, PX(p.gap_top))
    /\ FloatLeq(b.y, err, PX(p.gap_top + GAP_HEIGHT - 1))

\* Pipe.collides without its gap test.
PipeCollidesInX(p, b, err) == PipeInX(p, b)

\* Pipe.collides (lines 125-129).
PipeCollides(p, b, err) == PipeInX(p, b) /\ ~PipeInGap(p, b, err)

\* FlappyGame.reset (lines 150-156).
FlappyReset(full) ==
    [bird |-> BirdNew, pipes |-> << >>, frame |-> 0,
     next_spawn |-> IF full THEN SPAWN_EVERY ELSE 0,
     boom_frames |-> 0, boom_pos |-> <<0, 0>>]

\* FlappyGame.trigger_boom with a countdown one frame short.
TriggerBoomShort(g, cx, cy) ==
    [g EXCEPT !.boom_frames = BOOM_FRAMES - 1, !.boom_pos = <<cx, cy>>]

\* FlappyGame.trigger_boom (lines 157-159).
TriggerBoom(g, cx, cy) ==
    [g EXCEPT !.boom_frames = BOOM_FRAMES, !.boom_pos = <<cx, cy>>]

\* The game object as a record.
FlappyWorld ==
    [bird |-> bird, pipes |-> pipes, frame |-> frame, next_spawn |-> next_spawn,
     boom_frames |-> boom_frames, boom_pos |-> boom_pos]

\* The events process_events tells apart (lines 165-175): a press or a
\* release of space or button 0, a quit press, and any other event.
FlappyEventKinds == {"press", "release", "quit", "other"}

\* FlappyGame.process_events (lines 162-176).
ProcessEvents(evs) ==
    [press |-> \E i \in 1..Len(evs) : evs[i] = "press",
     release |-> \E i \in 1..Len(evs) : evs[i] = "release",
     quit_req |-> \E i \in 1..Len(evs) : evs[i] = "quit"]

\* The frozen test of FlappyGame.run that never holds.
NeverFrozen(n) == FALSE

\* Line 221 of FlappyGame.run: input and update are skipped while the boom
\* countdown n runs.
Frozen(n) == n # 0

\* Line 189: the bird left the arena through the top or reached the floor.
BirdOut(b, err) == ~FloatGeq(b.y, err, 0) \/ FloatGeq(b.y + PX(b.h), err, PX(H))

\* Python int() of a positive float of decimal value a and rounding error of
\* sign err.
FloatInt(a, err) ==
    IF a % Scale = 0 /\ err < 0 THEN TruncDiv(a, Scale) - 1 ELSE TruncDiv(a, Scale)

\* FlappyGame.update_world (lines 179-195) on game g; gap is the draw of
\* random.randint should a pipe be spawned, err the sign of the rounding
\* error of the new bird.y.
UpdateWorld(g, gap, err) ==
    LET b1 == BirdUpdate(g.bird)
        spawn == g.frame >= g.next_spawn
        ps1 == IF spawn THEN Append(g.pipes, PipeNew(W, gap)) ELSE g.pipes
        ps2 == [k \in 1..Len(ps1) |-> PipeUpdate(ps1[k])]
        ps3 == SelectSeq(ps2, LAMBDA p : ~PipeOffScreen(p))
        out == BirdOut(b1, err)
        hit == \E k \in 1..Len(ps3) : PipeCollides(ps3[k], b1, err)
        g1 == [g EXCEPT !.bird = b1, !.pipes = ps3, !.frame = g.frame + 1,
                        !.next_spawn = IF spawn THEN g.frame + SPAWN_EVERY
                                       ELSE g.next_spawn]
    IN  IF out \/ hit
        THEN TriggerBoom(g1, TruncDiv(PX(b1.x) + PX(b1.w) \div 2, Scale),
                             FloatInt(b1.y + PX(b1.h) \div 2, err))
        ELSE g1

\* The state change of FlappyGame.draw (lines 203-210).
FlappyDraw(g) ==
    IF g.boom_frames # 0
    THEN IF g.boom_frames - 1 = 0
         THEN FlappyReset(FALSE)
         ELSE [g EXCEPT !.boom_frames = g.boom_frames - 1]
    ELSE g

\* The press and release events of evs, in their order of arrival.
FlapKeys(evs) == SelectSeq(evs, LAMBDA e : e \in {"press", "release"})

\* Some release arrives before some press.
ReleaseThenPress(keys) ==
    \E i, j \in 1..Len(keys) : i < j /\ keys[i] = "release" /\ keys[j] = "press"

\* Some release arrives after some press.
PressThenRelease(keys) ==
    \E i, j \in 1..Len(keys) : i < j /\ keys[i] = "press" /\ keys[j] = "release"

NoFlappyEvents ==
    [keys |-> << >>, quit |-> FALSE, flapped |-> FALSE, updated |-> FALSE,
     boomed |-> FALSE, rendered |-> FALSE, reset |-> FALSE]

\* One pass of the loop of FlappyGame.run (lines 217-228); gap as in
\* UpdateWorld.
FlappyPass(evs, gap) ==
    \E in \in {ProcessEvents(evs)} :
    \E keys \in {FlapKeys(evs)} :
    \E g \in {FlappyWorld} :
        IF in.quit_req
        THEN /\ flappyRunning' = FALSE
             /\ flLast' = [NoFlappyEvents EXCEPT !.keys = keys, !.quit = TRUE]
             /\ flapSince' = IF in.release THEN FALSE ELSE flapSince
             /\ UNCHANGED flappyWorld
        ELSE \E play \in {~Frozen(g.boom_frames)} :
             \E b1 \in {IF play /\ in.press THEN BirdFlap(g.bird) ELSE g.bird} :
             \E b2 \in {IF play /\ in.release THEN BirdReleaseFlap(b1) ELSE b1} :
             \E err \in IF play THEN RoundingOf(BirdUpdate(b2).y) ELSE {0} :
             \E g1 \in {IF play THEN UpdateWorld([g EXCEPT !.bird = b2], gap, err) ELSE g} :
             \E g2 \in {FlappyDraw(g1)} :
             \E flapped \in {play /\ in.press /\ ~g.bird.cool} :
                 /\ bird' = g2.bird
                 /\ pipes' = g2.pipes
                 /\ frame' = g2.frame
                 /\ next_spawn' = g2.next_spawn
                 /\ boom_frames' = g2.boom_frames
                 /\ boom_pos' = g2.boom_pos
                 /\ flappyRunning' = TRUE
                 /\ flLast' = [keys |-> keys, quit |-> FALSE, flapped |-> flapped,
                               updated |-> play,
                               boomed |-> play /\ g1.boom_frames # 0,
                               rendered |-> TRUE,
                               reset |-> g1.boom_frames = 1]
                 /\ flapSince' = IF flapped THEN ~PressThenRelease(keys)
                                 ELSE IF in.release THEN FALSE ELSE flapSince

\* The loop runs until a quit press; the model follows a run for n passes.
\* random.randint is drawn only in a pass that may build a Pipe.
FlappyTickFor(n) ==
    /\ program = "flappy"
    /\ boot = "looping"
    /\ flappyRunning
    /\ flPasses < n
    /\ flPasses' = flPasses + 1
    /\ \E evs \in SeqsUpTo(FlappyEventKinds, MaxFlappyEvents) :
       \E gap \in IF frame >= next_spawn THEN GapTops ELSE {GAP_MARGIN} :
           FlappyPass(evs, gap)
    /\ UNCHANGED <<procVars, displayVars, breakoutVars, dinoVars, surfVars>>

\* The game after FlappyGame.__init__ (lines 140-147), at world g.
FlappyAt(g) ==
    /\ bird = g.bird
    /\ pipes = g.pipes
    /\ frame = g.frame
    /\ next_spawn = g.next_spawn
    /\ boom_frames = g.boom_frames
    /\ boom_pos = g.boom_pos
    /\ flappyRunning = TRUE
    /\ flLast = NoFlappyEvents
    /\ flapSince = g.bird.cool
    /\ flPasses = 0

FlappyInit == FlappyAt(FlappyReset(TRUE))

\* ========================================================================
\* LEDDisplay (src/breakout_game.py lines 36-59; the other scripts carry the
\* same class)
\* ------------------------------------------------------------------------
\* A colour is an (r, g, b) tuple; np.zeros and fb.fill(0) give BLACK.
BLACK == <<0, 0, 0>>

Colours == {BLACK, <<255, 255, 255>>, <<255, 0, 0>>}

\* LEDDisplay.__init__: np.zeros((h, w, 3)).
DisplayNew == [y \in 0..(DisplayH - 1) |-> [x \in 0..(DisplayW - 1) |-> BLACK]]

\* LEDDisplay.clear: self.fb.fill(0).
DisplayClear(f) == [y \in DOMAIN f |-> [x \in DOMAIN f[y] |-> BLACK]]

\* Variant of the guard of set that tests the upper bounds only.
InRangeUpper(x, y) == x < DisplayW /\ y < DisplayH

\* The guard of LEDDisplay.set: 0 <= x < self.w and 0 <= y < self.h.
InRange(x, y) == 0 <= x /\ x < DisplayW /\ 0 <= y /\ y < DisplayH

\* NumPy's reading of an index i of an axis of length n: a negative index
\* counts from the end.
NumpyIndex(i, n) == IF i < 0 THEN i + n ELSE i

\* LEDDisplay.set: self.fb[y, x] = rgb under the guard.
DisplaySet(f, x, y, rgb) ==
    IF InRange(x, y)
    THEN [f EXCEPT ![NumpyIndex(y, DisplayH)][NumpyIndex(x, DisplayW)] = rgb]
    ELSE f

\* What self.matrix.show() can do: return, or raise TimeoutError or another
\* OSError.
ShowOutcomes == {"ok", "TimeoutError", "OSError"}

\* Variant of show without its except clause.
CaughtNever(outcome) == FALSE

\* LEDDisplay.show: except TimeoutError: pass.
Caught(outcome) == outcome = "TimeoutError"

\* The display is in use: no exception has left it, and the frame counters
\* are within the window.
DisplayLive ==
    /\ program = "display"
    /\ dspRaised = "none"
    /\ frames.shown < MaxFrames
    /\ frames.dropped < MaxFrames

\* A call of clear().
DisplayClearStep ==
    /\ DisplayLive
    /\ fb' = DisplayClear(fb)
    /\ dspLast' = [op |-> "clear", inRange |-> TRUE, outcome |-> "ok"]
    /\ UNCHANGED <<dspRaised, frames>>
    /\ UNCHANGED <<procVars, breakoutVars, dinoVars, surfVars, flappyVars>>

\* A call of set(x, y, rgb).
DisplaySetCall(x, y, rgb) ==
    /\ fb' = DisplaySet(fb, x, y, rgb)
    /\ dspLast' = [op |-> "set", inRange |-> InRange(x, y), outcome |-> "ok"]
    /\ UNCHANGED <<dspRaised, frames>>
    /\ UNCHANGED <<procVars, breakoutVars, dinoVars, surfVars, flappyVars>>

\* The coordinates and colours that the callers pass: one pixel beyond each
\* edge of the display included.
DisplayXs == -1..DisplayW

DisplayYs == -1..DisplayH

DisplaySetStep ==
    /\ DisplayLive
    /\ \E x \in DisplayXs, y \in DisplayYs, rgb \in Colours \ {BLACK} :
           DisplaySetCall(x, y, rgb)

\* A call of show() in which self.matrix.show() ends with outcome.
DisplayShowCall(outcome) ==
    /\ dspRaised' = IF outcome = "ok" \/ Caught(outcome) THEN "none" ELSE outcome
    /\ frames' = IF outcome = "ok"
                  THEN [frames EXCEPT !.shown = frames.shown + 1]
                  ELSE [frames EXCEPT !.dropped = frames.dropped + 1]
    /\ dspLast' = [op |-> "show", inRange |-> TRUE, outcome |-> outcome]
    /\ UNCHANGED fb
    /\ UNCHANGED <<procVars, breakoutVars, dinoVars, surfVars, flappyVars>>

DisplayShowStep ==
    /\ DisplayLive
    /\ \E outcome \in ShowOutcomes : DisplayShowCall(outcome)

DisplayInit ==
    /\ fb = DisplayNew
    /\ dspRaised = "none"
    /\ frames = [shown |-> 0, dropped |-> 0]
    /\ dspLast = [op |-> "new", inRange |-> TRUE, outcome |-> "ok"]

\* ========================================================================
\* Programs and specifications
\* ========================================================================
\* The process after a start with one gamepad connected: it is in its loop.
Booted == pads = 1 /\ boot = "looping"

\* The scripts whose startup ends the process when no gamepad is connected:
\* Breakout.__init__ (breakout_game.py lines 145-147) and main of
\* google_dinosaur_game.py (lines 120-122) and subway_surfers.py (lines
\* 142-143) call sys.exit(1); FlappyGame.__init__ (line 145) sets pad to None.
NeedsPad == {"breakout", "dino", "surf"}

\* The startup of a script up to its loop: the gamepad test.
Startup ==
    /\ boot = "starting"
    /\ boot' = IF pads = 0 /\ program \in NeedsPad THEN "exited" ELSE "looping"
    /\ UNCHANGED <<program, pads, displayVars, breakoutVars, dinoVars, surfVars, flappyVars>>

\* --- The program from its start ------------------------------------------
BreakoutTick == TickFrom(0, MaxScore)

Init ==
    /\ program = "breakout"
    /\ Booted
    /\ DisplayInit
    /\ BreakoutInit
    /\ DinoInit
    /\ SurfInit
    /\ FlappyInit

Next == BreakoutTick

Spec == Init /\ [][Next]_vars

\* --- The program from its start, with a partly deflected stick -----------
PaddleTick == AnalogTickFrom(0, MaxPaddleScore)

SpecPaddle == Init /\ [][PaddleTick]_vars

\* --- The program on its last life ----------------------------------------
\* The session 64 passes after the start: the ball was served and lost twice
\* with the paddle driven to the left edge, taking bricks (16, 11) and (40, 11).
LastLifeBricks ==
    SelectSeq(FullLayout, LAMBDA b : b # <<16, 11>> /\ b # <<40, 11>>)

LastLifeInit ==
    /\ program = "breakout"
    /\ Booted
    /\ DisplayInit
    /\ \E p \in {[PaddleInit EXCEPT !.x = 0]} :
           BreakoutAt(p, BallInit(p), LastLifeBricks, 2, 1)
    /\ DinoInit
    /\ SurfInit
    /\ FlappyInit

LastLifeTick == TickFrom(2, MaxScore)

SpecLastLife == LastLifeInit /\ [][LastLifeTick]_vars

\* --- The program one brick before a level clear --------------------------
\* The session 357 passes after the start: 31 bricks taken, one life lost,
\* the ball waiting on the paddle and brick (40, 8) left.
EndgameInit ==
    /\ program = "breakout"
    /\ Booted
    /\ DisplayInit
    /\ BreakoutAt(PaddleInit, BallInit(PaddleInit), <<(<<40, 8>>)>>, 31, 2)
    /\ DinoInit
    /\ SurfInit
    /\ FlappyInit

EndgameTick == TickFrom(31, MaxEndgameScore)

SpecEndgame == EndgameInit /\ [][EndgameTick]_vars

\* --- Ball.update on the paddle scenario ----------------------------------
\* Paddle at x = 24 and a falling ball at x = 30 moving (1, 1).  With the ball
\* at y = 26 this is the session 148 passes after the start (five bricks of
\* the bottom row taken); y = 29 is the same objects with the ball set lower,
\* as a test of Ball.update sets them.
ScenarioBricks ==
    SelectSeq(FullLayout,
              LAMBDA b : b \notin {<<0, 11>>, <<8, 11>>, <<16, 11>>, <<32, 11>>, <<56, 11>>})

ScenarioBall(y) ==
    [sz |-> BALL_SZ, x |-> PX(30), y |-> PX(y), dx |-> PX(1), dy |-> PX(1),
     stuck |-> FALSE]

ScenarioInit ==
    /\ program = "breakout"
    /\ Booted
    /\ DisplayInit
    /\ \E y \in {26, 29} :
           BreakoutAt(PaddleInit, ScenarioBall(y), ScenarioBricks, 5, 3)
    /\ DinoInit
    /\ SurfInit
    /\ FlappyInit

ScenarioTick == TickFrom(5, MaxScore)

SpecScenario == ScenarioInit /\ [][ScenarioTick]_vars

\* --- The dino game or the lane runner, from its start --------------------
JumpInit ==
    /\ program \in {"dino", "surf"}
    /\ Booted
    /\ DisplayInit
    /\ BreakoutInit
    /\ DinoInit
    /\ SurfInit
    /\ FlappyInit

JumpNext == DinoTick \/ SurfTick

SpecJump == JumpInit /\ [][JumpNext]_vars

\* The same with the loops kept going: `while running` starts the next pass
\* as soon as clock.tick returns.
SpecJumpLive == SpecJump /\ WF_vars(DinoTick) /\ WF_vars(SurfTick)

\* --- The lane runner with late passes ------------------------------------
CoinsInit ==
    /\ program = "surf"
    /\ Booted
    /\ DisplayInit
    /\ BreakoutInit
    /\ DinoInit
    /\ SurfInit
    /\ FlappyInit

CoinsNext == SurfTick \/ SurfLateTick

SpecCoins == CoinsInit /\ [][CoinsNext]_vars

\* --- Flappy from its start -----------------------------------------------
FlappyStartInit ==
    /\ program = "flappy"
    /\ Booted
    /\ DisplayInit
    /\ BreakoutInit
    /\ DinoInit
    /\ SurfInit
    /\ FlappyInit

FlappyTick == FlappyTickFor(MaxPasses)

SpecFlappy == FlappyStartInit /\ [][FlappyTick]_vars

\* --- Flappy with a pipe about to reach the bird --------------------------
\* The game 40 passes after the reset that follows a boom: the pipe spawned
\* in the first of them, with any gap, is at x = 24, one pass from the bird's
\* right edge (x = 23).  The birds are five of those that 40 passes of flaps
\* and releases lead to, at heights 3.06, 9.02, 14.02, 17.10 and 20.50.
PipeBirds ==
    {[BirdNew EXCEPT !.y = b[1], !.vy = b[2], !.cool = TRUE] :
        b \in {<<306, 78>>, <<902, -18>>, <<1402, -18>>, <<1710, 174>>, <<2050, -66>>}}

PipeInit ==
    /\ program = "flappy"
    /\ Booted
    /\ DisplayInit
    /\ BreakoutInit
    /\ DinoInit
    /\ SurfInit
    /\ \E b \in PipeBirds, gap \in GapTops :
           FlappyAt([FlappyReset(FALSE) EXCEPT
                        !.bird = b,
                        !.pipes = <<PipeNew(W - 40 * PIPE_SPEED, gap)>>,
                        !.frame = 40,
                        !.next_spawn = SPAWN_EVERY])

PipeTick == FlappyTickFor(MaxPipePasses)

SpecPipe == PipeInit /\ [][PipeTick]_vars

\* --- Flappy with a pipe about to leave the arena -------------------------
\* The game 62 passes after the reset that follows a boom: the pipe spawned
\* in the first of them with gap_top = 9 is at x = 2 and the bird has flown
\* through its gap; the next spawn is due at frame 70.  The birds are five of
\* those that 62 passes of flaps and releases lead to, at heights 0.02, 7.30,
\* 13.14, 18.50 and 27.98.
SpawnBirds ==
    {[BirdNew EXCEPT !.y = b[1], !.vy = b[2], !.cool = b[3]] :
        b \in {<<2, -114, FALSE>>, <<730, -50, FALSE>>, <<1314, -18, FALSE>>,
               <<1850, 126, FALSE>>, <<2798, 254, TRUE>>}}

SpawnInit ==
    /\ program = "flappy"
    /\ Booted
    /\ DisplayInit
    /\ BreakoutInit
    /\ DinoInit
    /\ SurfInit
    /\ \E b \in SpawnBirds :
           FlappyAt([FlappyReset(FALSE) EXCEPT
                        !.bird = b,
                        !.pipes = <<PipeNew(W - 62 * PIPE_SPEED, 9)>>,
                        !.frame = 62,
                        !.next_spawn = SPAWN_EVERY])

SpawnTick == FlappyTickFor(MaxSpawnPasses)

SpecSpawn == SpawnInit /\ [][SpawnTick]_vars

\* --- Any of the four scripts from the start of its process ---------------
StartupInit ==
    /\ program \in {"breakout", "dino", "surf", "flappy"}
    /\ pads \in 0..MaxPads
    /\ boot = "starting"
    /\ DisplayInit
    /\ BreakoutInit
    /\ DinoInit
    /\ SurfInit
    /\ FlappyInit

StartupFlappyTick == FlappyTickFor(MaxStartupPasses)

StartupNext == Startup \/ BreakoutTick \/ DinoTick \/ SurfTick \/ StartupFlappyTick

SpecStartup == StartupInit /\ [][StartupNext]_vars

\* --- A display driven by any sequence of calls ---------------------------
DisplayUseInit ==
    /\ program = "display"
    /\ pads = 1
    /\ boot = "looping"
    /\ DisplayInit
    /\ BreakoutInit
    /\ DinoInit
    /\ SurfInit
    /\ FlappyInit

DisplayNext == DisplayClearStep \/ DisplaySetStep \/ DisplayShowStep

SpecDisplay == DisplayUseInit /\ [][DisplayNext]_vars

\* ========================================================================
\* Properties
\* ========================================================================
Abs(n) == IF n >= 0 THEN n ELSE -n

\* The whole number next to n / d on the side of zero (d > 0).
TruncOf(n, d) ==
    CHOOSE t \in -8..8 :
        IF n >= 0 THEN t * d <= n /\ n < (t + 1) * d
                  ELSE (t - 1) * d < n /\ n <= t * d

\* The ball waits on paddle p in its serving pose.
Served(b, p) ==
    /\ b.stuck
    /\ b.x = PX(p.x + p.w \div 2)
    /\ b.y = PX(p.y - b.sz - 1)
    /\ b.dx = PX(BALL_SPEED)
    /\ b.dy = -PX(BALL_SPEED)

\* C1: the score is never negative; a pass that performs a full reset leaves
\* it at exactly 0, and every other pass leaves it at least as high as it was.
C1_ScoreMonotone ==
    /\ [](score >= 0)
    /\ [][IF last'.reset THEN score' = 0 ELSE score' >= score]_vars

\* C1 witness: a full reset has just zeroed a positive score.
C1_Witness == last.reset /\ score = 0 /\ clears = 0

\* C2: a pass in which the ball leaves through the bottom while lives = 1 ends
\* with score 0, LIVES_START lives, the full 32-brick layout, and the ball
\* waiting on the re-centred paddle.
C2_LastLifeReset ==
    [][(lives = 1 /\ last'.lost) =>
          /\ last'.reset
          /\ score' = 0
          /\ lives' = LIVES_START
          /\ Len(bricks') = BRICK_ROWS * BRICK_COLS
          /\ bricks' = FullLayout
          /\ paddle'.x = (W - PADDLE_W) \div 2
          /\ Served(ball', paddle')]_vars

\* C2 witness: the ball was lost on the last life and the session restarted.
C2_Witness ==
    /\ last.lost
    /\ last.reset
    /\ lives = LIVES_START
    /\ Len(bricks) = BRICK_ROWS * BRICK_COLS

\* C3: a pass in which the ball leaves through the bottom while lives > 1
\* takes exactly one life and re-serves the ball; score and bricks are as
\* before the pass and the paddle is where its own move put it.
C3_LifeLossKeepsWorld ==
    [][(lives > 1 /\ last'.lost) =>
          /\ ~last'.reset
          /\ lives' = lives - 1
          /\ Served(ball', paddle')
          /\ score' = score
          /\ bricks' = bricks
          /\ \E value \in AxisValues :
                 paddle' = [paddle EXCEPT
                               !.x = Max2(0, Min2(W - PADDLE_W, paddle.x + 3 * value))]]_vars

\* C3 witness: a life was lost with lives to spare, after a brick was taken.
C3_Witness == last.lost /\ ~last.reset /\ lives = LIVES_START - 1 /\ score > 0

\* C4 (as claimed): after k level clears since the last full reset the ball's
\* vertical speed is BALL_SPEED x 1.1^k.
C4_SpeedCompounds ==
    \/ clears = 0 /\ Abs(ball.dy) = PX(BALL_SPEED)
    \/ clears = 1 /\ 10 * Abs(ball.dy) = 11 * PX(BALL_SPEED)
    \/ clears = 2 /\ 100 * Abs(ball.dy) = 121 * PX(BALL_SPEED)
    \/ clears > 2

\* C5 (as claimed): the ball is inside the left, right and top edges.
C5_BallInArena ==
    /\ 0 <= ball.x
    /\ ball.x <= PX(W - BALL_SZ)
    /\ ball.y >= 0

\* C6 (as claimed): in the dino and lane-runner games at the nominal pass the
\* actor's y stays in 0 .. GROUND_Y - h.
C6_ActorInArena ==
    /\ 0 <= dino.y
    /\ dino.y <= PX(GROUND_Y - DINO_H)
    /\ 0 <= runner.y
    /\ runner.y <= PX(GROUND_Y - RUNNER_H)

C8_OneFlipPerTick ==
    [][(last'.side /\ ~last'.lost) => Sign(ball'.dx) = -Sign(ball.dx)]_vars

\* C9: a paddle deflection happens only in a pass where the ball comes down
\* (dy > 0) and its moved position has y + sz in [paddle.y, paddle.y + paddle.h]
\* and x in [paddle.x, paddle.x + paddle.w]; it leaves dy = -BALL_SPEED and
\* dx = trunc(4 * ((x - paddle.x) / paddle.w - 0.5)) or, when that is 0, +1 or
\* -1 with the sign of the dx the pass began with.
C9_Deflection ==
    [][last'.deflect =>
          LET x == ball.x + ball.dx
              y == ball.y + ball.dy
              t == TruncOf(4 * (x - PX(paddle'.x)) - 2 * PX(PADDLE_W), PX(PADDLE_W))
          IN  /\ ball.dy > 0
              /\ PX(paddle'.y) <= y + PX(BALL_SZ)
              /\ y + PX(BALL_SZ) <= PX(paddle'.y + PADDLE_H)
              /\ PX(paddle'.x) <= x
              /\ x <= PX(paddle'.x + PADDLE_W)
              /\ ball'.dy = -PX(BALL_SPEED)
              /\ ball'.dx = IF t # 0 THEN PX(t) ELSE PX(Sign(ball.dx))]_vars

\* C9 witness: a deflection off the paddle's left end, dx = -2.
C9_Witness == last.deflect /\ ball.dx = -PX(2) /\ ball.dy = -PX(BALL_SPEED)

\* C10: a pass removes at most one brick; with the ball active it removes the
\* brick whose bounds hold the moved reference point and none when no brick
\* does, with the ball waiting it removes none; the score gained is the number
\* of bricks removed.
C10_OneBrickPerTick ==
    [][LET x == ball.x + ball.dx
           y == ball.y + ball.dy
           holding == {i \in 1..Len(bricks) :
                          /\ PX(bricks[i][1]) <= x
                          /\ x <= PX(bricks[i][1] + BRICK_W - 1)
                          /\ PX(bricks[i][2]) <= y
                          /\ y <= PX(bricks[i][2] + BRICK_H - 1)}
           gone == last'.removed
       IN  /\ Len(gone) <= 1
           /\ last'.moved => (gone = << >> <=> holding = {})
           /\ (last'.moved /\ holding # {}) => \E i \in holding : gone = <<bricks[i]>>
           /\ ~last'.moved => gone = << >>
           /\ ~last'.reset => score' = score + Len(gone)
           /\ ~(last'.reset \/ last'.clear) =>
                 /\ Len(bricks') = Len(bricks) - Len(gone)
                 /\ \A i \in 1..Len(bricks) :
                        (\E j \in 1..Len(bricks') : bricks'[j] = bricks[i])
                            <=> gone # <<bricks[i]>>]_vars

\* C10 witness: a pass has just removed a brick and scored it.
C10_Witness == Len(last.removed) = 1 /\ last.moved /\ score > 0

\* C11: in the pass that removes the last remaining brick the brick list is
\* the full layout of 32 bricks again and both velocity components are 1.1
\* times what Ball.update left (the brick flipped dy, a side bound may have
\* flipped dx), so each is strictly larger in size than before the clear.
C11_LevelClear ==
    [][(Len(bricks) = 1 /\ last'.removed # << >>) =>
          /\ last'.clear
          /\ bricks' = FullLayout
          /\ Len(bricks') = BRICK_ROWS * BRICK_COLS
          /\ 10 * ball'.dy = 11 * (-ball.dy)
          /\ 10 * Abs(ball'.dx) = 11 * Abs(ball.dx)
          /\ Abs(ball'.dx) > Abs(ball.dx)
          /\ Abs(ball'.dy) > Abs(ball.dy)]_vars

\* C11 witness: the pass that took the 32nd brick has just ended.
C11_Witness ==
    /\ last.clear
    /\ last.removed = <<(<<40, 8>>)>>
    /\ score = BRICK_ROWS * BRICK_COLS
    /\ Len(bricks) = BRICK_ROWS * BRICK_COLS
    /\ 10 * Abs(ball.dy) = 11 * PX(BALL_SPEED)

\* C12 (as claimed): in Flappy the size of the bird's vertical velocity is at
\* most |VY_CLAMP| = 2.0 after every Bird.update that leaves the bird in play.
C12_VelocityClamped ==
    (flLast.updated /\ ~flLast.boomed) => Abs(bird.vy) <= Abs(VY_CLAMP)

\* C16 (as claimed): a pass flaps (a press sets vy to FLAP_VY) only when no
\* flap happened since the last release event: either none had happened when
\* the pass began, or a release arrived in this pass ahead of a press.
C16_FlapOnlyAfterRelease ==
    [][flLast'.flapped => (~flapSince \/ ReleaseThenPress(flLast'.keys))]_vars

\* The press and release events applied to bird b one by one, as they arrived.
RECURSIVE ApplyInOrder(_, _)
ApplyInOrder(b, keys) ==
    IF keys = << >> THEN b
    ELSE ApplyInOrder(IF Head(keys) = "press" THEN BirdFlap(b) ELSE BirdReleaseFlap(b),
                      Tail(keys))

\* Some press of keys finds the cooldown clear when the events are applied
\* one by one.
FlapsInOrder(b, keys) ==
    \E i \in 1..Len(keys) :
        keys[i] = "press" /\ ~ApplyInOrder(b, SubSeq(keys, 1, i - 1)).cool

\* C17 (as claimed): a playing pass that drains both a press and a release
\* ends as if they were applied in their order of arrival: it flaps iff some
\* press found the cooldown clear, and the cooldown is what the last of them
\* left; so a release followed by a press with the cooldown set flaps and
\* leaves the cooldown set.
C17_ArrivalOrder ==
    [][(/\ boom_frames = 0
        /\ ~flLast'.quit
        /\ \E i \in 1..Len(flLast'.keys) : flLast'.keys[i] = "press"
        /\ \E i \in 1..Len(flLast'.keys) : flLast'.keys[i] = "release")
       => /\ flLast'.flapped = FlapsInOrder(bird, flLast'.keys)
          /\ bird'.cool = ApplyInOrder(bird, flLast'.keys).cool]_vars

\* C18: a pass that starts with a non-zero boom countdown runs neither the
\* input nor the update phase: no flap, no update_world, and bird, cooldown,
\* pipes, frame counter and spawn timer are as before, whatever events were
\* drained; only the render of the countdown's last frame replaces them, by
\* the reset.
C18_FrozenWhileBoom ==
    [][boom_frames # 0 =>
          /\ ~flLast'.updated
          /\ ~flLast'.flapped
          /\ \/ UNCHANGED <<bird, pipes, frame, next_spawn>>
             \/ boom_frames = 1 /\ flLast'.reset]_vars

\* C18 witness: a frozen pass that drained a press and a release has just
\* ended and the countdown still runs.
C18_Witness ==
    /\ boom_frames \in 1..(BOOM_FRAMES - 2)
    /\ flLast.rendered
    /\ ~flLast.updated
    /\ Len(flLast.keys) = 2
    /\ flLast.keys[1] # flLast.keys[2]

\* C20 (as claimed): the pass that reads a quit press completes its render
\* before the loop is left.
C20_QuitCompletesPass == flLast.quit => flLast.rendered

\* The bird's rows and pipe p's gap rows, after a pass that ran update_world.
BirdAbovePipeGap(p) == bird.y < PX(p.gap_top)

BirdBelowPipeGap(p) == bird.y + PX(bird.h - 1) > PX(p.gap_top + GAP_HEIGHT)

BirdInsidePipeGap(p) ==
    /\ bird.y >= PX(p.gap_top)
    /\ bird.y + PX(bird.h - 1) <= PX(p.gap_top + GAP_HEIGHT - 1)

\* C13 (as claimed): after every pass that ran update_world, if the bird's box
\* overlaps a pipe in x and its top row is above the gap's first row or its
\* bottom row below the gap's last row (rows Pipe.draw paints), the pass
\* triggered the boom.
C13_CollisionOutsideGap ==
    (flLast.updated /\ \E k \in 1..Len(pipes) :
         /\ PipeInX(pipes[k], bird)
         /\ BirdAbovePipeGap(pipes[k]) \/ BirdBelowPipeGap(pipes[k]))
        => flLast.boomed

\* C14: after every pass that ran update_world, a bird whose rows
\* [y, y + h - 1] are all gap rows of a pipe it overlaps in x, the first and
\* the last gap row included, did not trigger the boom (the gap rows are rows
\* of the arena, and no second pipe is within SPAWN_EVERY columns).
C14_GapIsSafe ==
    (flLast.updated /\ \E k \in 1..Len(pipes) :
         PipeInX(pipes[k], bird) /\ BirdInsidePipeGap(pipes[k]))
        => ~flLast.boomed

\* C14 witness: the bird overlaps the pipe in x with its top row exactly the
\* first gap row, and plays on.
C14_Witness ==
    /\ flLast.updated
    /\ ~flLast.boomed
    /\ boom_frames = 0
    /\ \E k \in 1..Len(pipes) :
           PipeInX(pipes[k], bird) /\ bird.y = PX(pipes[k].gap_top)

\* Bird b is out of the arena or misses the gap of a pipe of ps it overlaps
\* in x, by more than slack (slack 0: certainly; slack -1: ties included).
OutOrHit(b, ps, slack) ==
    \/ b.y < -slack
    \/ b.y + PX(b.h) > PX(H) + slack
    \/ \E k \in 1..Len(ps) :
           /\ PipeInX(ps[k], b)
           /\ \/ b.y + PX(b.h - 1) < PX(ps[k].gap_top) - slack
              \/ b.y > PX(ps[k].gap_top + GAP_HEIGHT - 1) + slack

\* C19: a pass that plays leaves the countdown at 0, or at BOOM_FRAMES - 1
\* (set to 6 and rendered once) when the bird is out of the arena or collides
\* with a pipe (either of the two when a float comparison ties); every later
\* pass that is not a quit takes exactly one off it whatever was drained, and
\* a quit pass leaves it as it is; the pass that brings it to 0 ends with the
\* bird in its start pose, no pipes and frame 0, and the pass after that
\* plays.
C19_BoomCountdown ==
    [][/\ (boom_frames = 0 /\ ~flLast'.quit) =>
              /\ flLast'.updated
              /\ boom_frames' = IF flLast'.boomed THEN BOOM_FRAMES - 1 ELSE 0
              /\ OutOrHit(bird', pipes', 0) => flLast'.boomed
              /\ flLast'.boomed => OutOrHit(bird', pipes', -1)
       /\ (boom_frames > 0 /\ ~flLast'.quit) =>
              /\ boom_frames' = boom_frames - 1
              /\ flLast'.rendered
              /\ ~flLast'.boomed
              /\ boom_frames' = 0 =>
                     /\ bird'.x = W \div 4 /\ bird'.y = PX(H \div 2) /\ bird'.vy = 0
                     /\ pipes' = << >>
                     /\ frame' = 0
       /\ flLast'.quit => boom_frames' = boom_frames]_vars

\* C19 witness: the pass after the reset that ended a boom started by a pipe
\* collision has played (frame 1, with the pipe the reset's spawn timer asks
\* for).
C19_Witness ==
    /\ flPasses > BOOM_FRAMES
    /\ frame = 1
    /\ flLast.updated
    /\ Len(pipes) = 1
    /\ pipes[1].x = W - PIPE_SPEED
    /\ boom_frames = 0

\* The rectangles of dino d and obstacle o overlap on both axes as closed
\* intervals.
ClosedOverlap(d, o) ==
    /\ PX(d.x) <= PX(o.x + o.w)
    /\ PX(d.x + d.w) >= PX(o.x)
    /\ d.y <= PX(o.y + o.h)
    /\ d.y + PX(d.h) >= PX(o.y)

\* C15 (as claimed): the collision test fires on every closed-interval
\* overlap, touching edges included; a collision resets the dino and clears
\* the obstacle list, so no pass ends with an obstacle that overlaps the dino.
C15_TouchingCollides ==
    \A k \in 1..Len(obstacles) : ~ClosedOverlap(dino, obstacles[k])

\* C26: a stuck ball is released only by a pass that drained a button-0 press
\* (a pass without one leaves it stuck); an active ball becomes stuck only in
\* a pass that lost it (a life loss or a full reset); and after every pass
\* that ends with the ball stuck the ball sits on the paddle's middle, one
\* pixel above it, and the pass took no brick and gained no score.
C26_ServingState ==
    /\ [](ball.stuck => /\ ball.x = PX(paddle.x + paddle.w \div 2)
                        /\ ball.y = PX(paddle.y - ball.sz - 1))
    /\ [][(ball.stuck /\ ~ball'.stuck) =>
              \E in \in Inputs : in[1] /\ Tick(in[1], in[2], in[3])]_vars
    /\ [][(ball.stuck /\ \E in \in Inputs : ~in[1] /\ Tick(in[1], in[2], in[3]))
              => ball'.stuck]_vars
    /\ [][(~ball.stuck /\ ball'.stuck) => last'.lost]_vars
    /\ [][ball'.stuck => (last'.removed = << >> /\ score' <= score)]_vars

\* C26 witness: the ball is stuck again after a life loss, away from the
\* paddle's starting place, with a brick taken earlier.
C26_Witness ==
    /\ ball.stuck
    /\ last.lost
    /\ ~last.reset
    /\ score > 0
    /\ paddle.x # (W - PADDLE_W) \div 2
    /\ ball.x = PX(paddle.x + paddle.w \div 2)

\* C29: with an idle gamepad (no press, no axis or hat reading, no quit press)
\* a pass that starts with the ball stuck ends with it stuck and leaves score,
\* lives, the brick list and the paddle where they were; the session starts
\* with the ball stuck, so an idle gamepad keeps it so for ever.
C29_IdleIsInert ==
    /\ BreakoutInit => ball.stuck
    /\ [][(ball.stuck /\ Tick(FALSE, 0, FALSE)) =>
              /\ ball'.stuck
              /\ ball' = ball
              /\ UNCHANGED <<score, lives, bricks, paddle>>]_vars

\* C29 witness: a pass has just left the ball stuck where an earlier life loss
\* put it, with the paddle away from its starting place.
C29_Witness ==
    /\ ball.stuck
    /\ ~last.moved
    /\ ~last.lost
    /\ lives = LIVES_START - 1
    /\ paddle.x = 0

\* C30: after every pass lives is one of 1 .. LIVES_START; the pass that takes
\* the last life ends with the full reset's LIVES_START.
C30_LivesPositive ==
    /\ [](lives \in 1..LIVES_START)
    /\ [][(lives = 1 /\ last'.lost) => lives' = LIVES_START]_vars

\* C30 witness: the pass that took the last life has ended with all lives
\* back.
C30_Witness == last.reset /\ last.lost /\ lives = LIVES_START /\ score = 0 /\ ball.stuck

\* C25 (as claimed): the draw step changes no entity or session variable.  A
\* pass that starts with the boom countdown running skips input and update,
\* so what it changes is what FlappyGame.draw changes.
C25_DrawIsPure ==
    [][(boom_frames # 0 /\ flLast'.rendered) =>
          UNCHANGED <<bird, pipes, frame, next_spawn, boom_frames, boom_pos>>]_vars

\* C28: in the dino and lane-runner games an actor with on_ground set stands
\* at y = GROUND_Y - h with vy = 0; and an update of an airborne actor whose
\* new y reaches or passes GROUND_Y - h ends with y = GROUND_Y - h, vy = 0 and
\* on_ground set.
C28_GroundSnap ==
    /\ [](dino.on_ground => (dino.y = PX(GROUND_Y - dino.h) /\ dino.vy = 0))
    /\ [](runner.on_ground => (runner.y = PX(GROUND_Y - runner.h) /\ runner.vy = 0))
    /\ [][(/\ program = "dino"
           /\ dinoLoop' = "running"
           /\ ~dino.on_ground
           /\ dino.y - (dino.vy + GravityStep) >= PX(GROUND_Y - dino.h))
          => (/\ dino'.y = PX(GROUND_Y - dino.h)
              /\ dino'.vy = 0
              /\ dino'.on_ground)]_vars
    /\ [][(/\ program = "surf"
           /\ ~runner.on_ground
           /\ runner.y - (runner.vy + GravityStep) >= PX(GROUND_Y - runner.h))
          => (/\ runner'.y = PX(GROUND_Y - runner.h)
              /\ runner'.vy = 0
              /\ runner'.on_ground)]_vars

\* C28 witness: the dino stands on the ground with an obstacle behind it, so
\* it jumped over the obstacle and has landed.
C28_Witness ==
    /\ program = "dino"
    /\ dino.on_ground
    /\ dino.y = PX(GROUND_Y - dino.h)
    /\ \E k \in 1..Len(obstacles) : obstacles[k].x + obstacles[k].w <= dino.x

\* C27: in the lane runner every pass adds to the score 1 if some coin touches
\* the runner at the coin test and 0 otherwise, and removes that many coins,
\* however many coins touch; so the score never decreases.  A pass with an
\* obstacle collision leaves the score as it was, the runner standing in its
\* lane and both lists empty.
C27_CoinScore ==
    [][program = "surf" =>
          /\ surfScore' = surfScore + (IF surfLast'.touching > 0 THEN 1 ELSE 0)
          /\ surfLast'.removed = surfScore' - surfScore
          /\ surfScore' >= surfScore
          /\ surfLast'.hit =>
                 /\ surfScore' = surfScore
                 /\ runner' = RunnerReset(runner')
                 /\ surfObstacles' = << >>
                 /\ surfCoins' = << >>]_vars

\* C27 witness: two coins touched the runner in the latest pass; one was
\* collected for one point and the other is still in the list.
C27_Witness ==
    /\ program = "surf"
    /\ surfLast.touching = 2
    /\ surfLast.removed = 1
    /\ Len(surfCoins) = 1
    /\ surfScore >= 1

\* The groups of ws that write at least one pixel come passive first, then
\* actor.
PassiveBeforeActor(ws) ==
    \A i, j \in 1..Len(ws) :
        (ws[i].kind = "actor" /\ ws[j].kind = "passive" /\ ws[j].px # {}) => j < i

\* No passive group of ws writes, after the actor's group, a pixel that the
\* actor's group wrote.
ActorColourWins(ws) ==
    \A i, j \in 1..Len(ws) :
        (ws[i].kind = "actor" /\ ws[j].kind = "passive" /\ i < j)
            => ws[i].px \cap ws[j].px = {}

\* C24 (as claimed): the draw step of the dino game and of the lane runner
\* writes every passive entity before the actor, and the actor's colour is
\* the last one written on every pixel it shares with a passive entity.
C24_PassiveThenActor ==
    /\ program = "dino" => /\ PassiveBeforeActor(DinoDraw(dino, obstacles))
                           /\ ActorColourWins(DinoDraw(dino, obstacles))
    /\ program = "surf" => /\ PassiveBeforeActor(SurfDraw(runner, surfObstacles, surfCoins))
                           /\ ActorColourWins(SurfDraw(runner, surfObstacles, surfCoins))

\* C21 (as claimed): a script started with no gamepad connected does not
\* terminate at startup; it goes on to its loop.
C21_IdleWithoutPad == pads = 0 => boot # "exited"

\* C22: a show() in which the driver raises TimeoutError lets no exception
\* out, leaves the framebuffer and every game variable as they were, and the
\* display stays in use: while the latest call is such a show, no exception
\* has left the display.
C22_TimeoutSwallowed ==
    /\ [][(DisplayLive /\ DisplayShowCall("TimeoutError")) =>
              /\ dspRaised' = "none"
              /\ fb' = fb
              /\ UNCHANGED <<procVars, breakoutVars, dinoVars, surfVars, flappyVars>>]_vars
    /\ []((dspLast.op = "show" /\ dspLast.outcome = "TimeoutError") => dspRaised = "none")

\* C22 witness: a frame was dropped on a TimeoutError, and a later show()
\* pushed the first frame, with pixels set in between or before.
C22_Witness ==
    /\ program = "display"
    /\ frames.dropped >= 1
    /\ frames.shown = 1
    /\ dspLast.op = "show"
    /\ dspLast.outcome = "ok"
    /\ dspRaised = "none"
    /\ fb # DisplayNew

\* C23: set(x, y, rgb) lets no exception out; with x in 0..w-1 and y in
\* 0..h-1 the framebuffer afterwards differs from the one before at most in
\* pixel (x, y), which holds rgb; with any other x or y the framebuffer is
\* unchanged.
C23_SetClips ==
    [][\A x \in DisplayXs, y \in DisplayYs, rgb \in Colours \ {BLACK} :
          (DisplayLive /\ DisplaySetCall(x, y, rgb)) =>
              /\ dspRaised' = "none"
              /\ IF x \in 0..(DisplayW - 1) /\ y \in 0..(DisplayH - 1)
                 THEN \A yy \in 0..(DisplayH - 1), xx \in 0..(DisplayW - 1) :
                          fb'[yy][xx] = IF xx = x /\ yy = y THEN rgb ELSE fb[yy][xx]
                 ELSE fb' = fb]_vars

\* C23 witness: the latest call was a set outside the display, made when
\* earlier sets had already coloured a pixel.
C23_Witness ==
    /\ program = "display"
    /\ dspLast.op = "set"
    /\ ~dspLast.inRange
    /\ dspRaised = "none"
    /\ fb # DisplayNew

\* C31: in Breakout, after every pass the brick list holds between 1 and
\* BRICK_ROWS * BRICK_COLS bricks, and score plus the number of bricks left
\* is a multiple of BRICK_ROWS * BRICK_COLS.
C31_BricksAndScore ==
    /\ Len(bricks) \in 1..(BRICK_ROWS * BRICK_COLS)
    /\ (score + Len(bricks)) % (BRICK_ROWS * BRICK_COLS) = 0

\* C31 witness: a level was cleared, the layout was refilled and a brick of
\* the new layout has been taken since.
C31_Witness ==
    /\ program = "breakout"
    /\ clears >= 1
    /\ score > BRICK_ROWS * BRICK_COLS
    /\ Len(bricks) < BRICK_ROWS * BRICK_COLS

\* C32: in Breakout the ball's dx and dy are both non-zero after every pass.
C32_VelocityNonZero == ball.dx # 0 /\ ball.dy # 0

\* C32 witness: the latest pass deflected the ball off the middle of the
\* paddle, where int(offset * 4) is 0 and dx comes from the sign fallback.
C32_Witness ==
    /\ program = "breakout"
    /\ last.deflect
    /\ ball.x - PX(paddle.x) > PX(paddle.w) \div 4
    /\ ball.x - PX(paddle.x) < (3 * PX(paddle.w)) \div 4
    /\ ball.dx # 0

\* C33: in Breakout the paddle's x is in 0 .. W - PADDLE_W after every pass,
\* whatever the stick and hat readings were.
C33_PaddleInArena == 0 <= paddle.x /\ paddle.x <= W - PADDLE_W

\* C33 witness: the paddle has been driven to the left edge while the ball is
\* in play.
C33_Witness ==
    /\ program = "breakout"
    /\ paddle.x = 0
    /\ ~ball.stuck

C35_OnePipe ==
    /\ [](/\ Len(pipes) <= 1
          /\ \A k \in 1..Len(pipes) :
                 /\ -PIPE_WIDTH <= pipes[k].x
                 /\ pipes[k].x <= W - 1
                 /\ pipes[k].x = W - PIPE_SPEED * (frame - (next_spawn - SPAWN_EVERY))
          /\ frame <= next_spawn)
    /\ [][flLast'.updated =>
              /\ (\E k \in 1..Len(pipes') : pipes'[k].x = W - PIPE_SPEED)
                     <=> frame = next_spawn
              /\ next_spawn' = IF frame = next_spawn THEN frame + SPAWN_EVERY
                               ELSE next_spawn]_vars

\* C35 witness: the session is past frame SPAWN_EVERY, the first pipe has left
\* and the pipe in the list is the one just spawned.
C35_Witness ==
    /\ program = "flappy"
    /\ frame = SPAWN_EVERY + 1
    /\ Len(pipes) = 1
    /\ pipes[1].x = W - PIPE_SPEED
    /\ boom_frames = 0

\* C36: in the lane runner lane is in 0 .. LANES - 1 and runner.x is
\* LANE_X[lane] after every pass; the lane a pass ends in is the one its
\* left/right inputs lead to, each input moving at most one lane and none at
\* the outer lanes' far side, whether or not the pass reset the runner on an
\* obstacle.
C36_LaneKept ==
    /\ [](runner.lane \in 0..(LANES - 1) /\ runner.x = LANE_X(runner.lane))
    /\ [][\A evs \in SeqsUpTo(SurfEventKinds, MaxEvents), so \in BOOLEAN, sc \in BOOLEAN :
              SurfPassAt(evs, so, sc, FALSE) =>
                  /\ runner'.lane = SurfInput(runner, surfRunning, evs).runner.lane
                  /\ Abs(runner'.lane - runner.lane) <= Len(evs)
                  /\ (runner.lane = 0 /\ evs = <<"left">>) => runner'.lane = 0
                  /\ (runner.lane = LANES - 1 /\ evs = <<"right">>) => runner'.lane = LANES - 1]_vars

\* C36 witness: the latest pass reset the runner on an obstacle in the
\* rightmost lane, and the runner stands there.
C36_Witness ==
    /\ program = "surf"
    /\ surfLast.hit
    /\ runner.lane = LANES - 1
    /\ runner.on_ground

\* C37: in the dino game and the lane runner a pass with a jump press that
\* starts in mid-air ends as the pass without the press does, and one that
\* starts on the ground ends in mid-air with vy = JUMP_STRENGTH less one step
\* of gravity; in mid-air |vy| stays below JUMP_STRENGTH and every pass takes
\* one step of gravity off vy, so the jump is over within 2 * JUMP_STRENGTH /
\* |GRAVITY| passes; and while the loop runs, every actor in mid-air is on the
\* ground again later.  The dino's bound on vy is stated between the passes
\* of a running loop: a pass that the TypeError of line 145 leaves after a
\* jump of the same pass stops before the update, with vy = JUMP_STRENGTH.
C37_JumpLands ==
    /\ [][\A spawn \in BOOLEAN :
              /\ (~dino.on_ground /\ DinoPass(<<"press0">>, spawn))
                     => DinoPass(<< >>, spawn)
              /\ (dino.on_ground /\ DinoPass(<<"press0">>, spawn))
                     => (~dino'.on_ground /\ dino'.vy = PX(JUMP_STRENGTH) + GravityStep)]_vars
    /\ [][\A so \in BOOLEAN, sc \in BOOLEAN :
              /\ (~runner.on_ground /\ SurfPassAt(<<"jump">>, so, sc, FALSE))
                     => SurfPassAt(<< >>, so, sc, FALSE)
              /\ (runner.on_ground /\ SurfPassAt(<<"jump">>, so, sc, FALSE))
                     => (~runner'.on_ground
                         /\ runner'.vy = PX(JUMP_STRENGTH) + GravityStep)]_vars
    /\ []((~dino.on_ground /\ dinoLoop = "running")
              => Abs(dino.vy) < PX(JUMP_STRENGTH))
    /\ [](~runner.on_ground => Abs(runner.vy) < PX(JUMP_STRENGTH))
    /\ [][(~dino.on_ground /\ ~dino'.on_ground /\ dinoLoop' = "running")
              => dino'.vy = dino.vy + GravityStep]_vars
    /\ [][(~runner.on_ground /\ ~runner'.on_ground)
              => runner'.vy = runner.vy + GravityStep]_vars
    /\ (program = "dino" /\ ~dino.on_ground)
           ~> (dino.on_ground \/ dinoLoop # "running")
    /\ (program = "surf" /\ ~runner.on_ground)
           ~> (runner.on_ground \/ ~surfRunning \/ surfScore >= MaxSurfScore)

\* C37 witness: the runner is in mid-air on its way down, less than
\* JUMP_STRENGTH rows above the ground line.
C37_Witness ==
    /\ program = "surf"
    /\ ~runner.on_ground
    /\ runner.vy < 0
    /\ runner.y > PX(GROUND_Y - runner.h - JUMP_STRENGTH)

\* C38, as claimed: in the dino game no gamepad button-down event raises an
\* exception out of the pass: button 0 jumps, button 3 ends the loop after
\* the current pass and every other button is ignored, so main's loop is
\* never left by an exception.  In the code `e.button in (3)` (line 145)
\* tests membership in the integer 3 and raises TypeError for every pressed
\* button other than 0.
C38_NoExceptionFromInput == dinoLoop # "raised"

====
